---- MODULE Spec2Model ----
(***************************************************************************)
(* Model of the case evaluator of main.py: evaluate_cases (the             *)
(* orchestrator) fans a batch of IO cases out to a ProcessPoolExecutor,    *)
(* each task being one call of _run_single_case (the worker), and collects *)
(* the futures in submission order with a per-case wall-clock timeout.     *)
(*                                                                         *)
(* Time is discrete: one Tick is one second.  Everything that takes no     *)
(* noticeable time (queue hand-over, setrlimit, result delivery, the       *)
(* orchestrator picking up a finished future) happens before time moves.   *)
(***************************************************************************)
EXTENDS Naturals, Integers, Sequences, FiniteSets, TLC

\* ---------------------------------------------------------------- bounds
MaxCases == 2
MaxWorkers == 2

\* ------------------------------------------------- parameters of the call
\* evaluate_cases(..., timeout=5.0, cpu_seconds=4)
Timeout == 5
CpuSeconds == 4
\* ProcessPoolExecutor keeps max_workers + EXTRA_QUEUED_CALLS calls prefetched
ExtraQueuedCalls == 1

None == <<"None">>
NoExc == "none"

\* ------------------------------------------------------------- user code
\* What the submitted code does for one case.  The code artifact is shared by
\* the batch; the case's input text selects the behaviour.
\*   pass        returns the expected value at once
\*   wrong       returns another value at once
\*   raise       raises an Exception (load error, NameError on the entry
\*               point, exception in the call or in the comparison)
\*   sysexit     raises SystemExit (sys.exit()), not a subclass of Exception
\*   unpicklable returns a value pickle cannot send back (a lambda)
\*   crash       the process dies at once (os._exit, SIGKILL, SIGSEGV)
\*   busy        computes for BusyCpu seconds of CPU, then returns the value
\*   loop        CPU-bound infinite loop
\*   hang        blocks for ever without using CPU (time.sleep, a read)
\*   slow        sleeps longer than the per-case timeout, then returns the
\*               expected value
Programs ==
    {"pass", "wrong", "raise", "sysexit", "unpicklable", "crash",
     "busy", "loop", "hang", "slow"}

BusyCpu == 2
SlowDur == Timeout + 1

\* programs that burn CPU while they run (RLIMIT_CPU counts them)
CpuBound(prog) == prog \in {"busy", "loop"}

\* programs whose call never returns by itself
NeverEnds(prog) == prog \in {"loop", "hang"}

\* wall-clock seconds the user code of a case runs before it ends by itself
Duration(prog) ==
    CASE prog = "busy" -> BusyCpu
      [] prog = "slow" -> SlowDur
      [] OTHER -> 0

\* an IOCase: {"input": text, "output": text}
Case(prog) == [input |-> <<"in", prog>>, output |-> <<"out", prog>>]

ProgramOf(case) == case.input[2]

\* ast.literal_eval(case["output"]): the value the output text denotes
LiteralEval(text) == <<"val", text[2]>>

\* the value the entry point returns for a case, when it returns
ReturnValue(case) ==
    CASE ProgramOf(case) = "wrong" -> <<"val", "other">>
      [] ProgramOf(case) = "unpicklable" -> <<"lambda", "local">>
      [] OTHER -> LiteralEval(case.output)

Picklable(value) == value[1] # "lambda"

\* --------------------------------------------------------------- worker
\* the dict _run_single_case returns when no step raised
SuccessResult(case) ==
    [passed |-> ReturnValue(case) = LiteralEval(case.output),
     got |-> ReturnValue(case),
     expected |-> LiteralEval(case.output),
     error |-> None]

\* mutant of ErrorResult: the handler reports no expected value
ErrorResultNoExpected(case, kind) ==
    [passed |-> FALSE,
     got |-> None,
     expected |-> None,
     error |-> <<kind, "traceback">>]

\* the dict _run_single_case returns from its except Exception handler
ErrorResult(case, kind) ==
    [passed |-> FALSE,
     got |-> None,
     expected |-> case.output,
     error |-> <<kind, "traceback">>]

\* the body of _run_single_case after the limits are set, for user code that
\* raises nothing outside Exception and lets the process live
RunSingleCase(case) ==
    IF ProgramOf(case) = "raise"
    THEN ErrorResult(case, "Exception")
    ELSE SuccessResult(case)

NoOutcome == [kind |-> "none", value |-> None, exc |-> NoExc, is_exception |-> FALSE]
ResultOutcome(r) == [kind |-> "result", value |-> r, exc |-> NoExc, is_exception |-> FALSE]
\* is_exception: the raised class derives from Exception
ExcOutcome(e, sub) == [kind |-> "exception", value |-> None, exc |-> e, is_exception |-> sub]

\* what the pool's worker loop sends back for one call of _run_single_case:
\* the returned dict, the pickling error of a dict that cannot be sent, or
\* the BaseException that escaped the call
WorkerOutcome(case) ==
    IF ProgramOf(case) = "sysexit"
    THEN ExcOutcome("SystemExit", FALSE)
    ELSE IF Picklable(RunSingleCase(case).got)
         THEN ResultOutcome(RunSingleCase(case))
         ELSE ExcOutcome("PicklingError", TRUE)

\* mutant of SetLimits: a failed setrlimit is swallowed and the worker goes on
SetLimitsSwallowed(proc, env) ==
    CASE env = "as_fails" ->
           [ok |-> TRUE, rlimit_as |-> proc.rlimit_as, rlimit_cpu |-> TRUE]
      [] env = "cpu_fails" ->
           [ok |-> TRUE, rlimit_as |-> TRUE, rlimit_cpu |-> proc.rlimit_cpu]
      [] OTHER ->
           [ok |-> TRUE, rlimit_as |-> TRUE, rlimit_cpu |-> TRUE]

\* resource.setrlimit(RLIMIT_AS, ...); resource.setrlimit(RLIMIT_CPU, ...)
\* env says which call raises here; ok means both limits are now in force
SetLimits(proc, env) ==
    CASE env = "as_fails" ->
           [ok |-> FALSE, rlimit_as |-> proc.rlimit_as, rlimit_cpu |-> proc.rlimit_cpu]
      [] env = "cpu_fails" ->
           [ok |-> FALSE, rlimit_as |-> TRUE, rlimit_cpu |-> proc.rlimit_cpu]
      [] OTHER ->
           [ok |-> TRUE, rlimit_as |-> TRUE, rlimit_cpu |-> TRUE]

\* ---------------------------------------------------------- orchestrator
\* mutant of TimeoutResult: the made-up dict keeps the default passed = True
TimeoutResultPassed(case) ==
    [passed |-> TRUE,
     got |-> None,
     expected |-> case.output,
     error |-> <<"Timeout">>]

\* the dict evaluate_cases makes up when fut.result times out
TimeoutResult(case) ==
    [passed |-> FALSE,
     got |-> None,
     expected |-> case.output,
     error |-> <<"Timeout">>]

\* the dict evaluate_cases makes up when fut.result raises an Exception
InfraResult(case, kind) ==
    [passed |-> FALSE,
     got |-> None,
     expected |-> case.output,
     error |-> <<kind, "message">>]

\* result["case"] = idx; result["input"] = case.get("input")
\* (idx is the model's 1-based position, the reported index is 0-based)
Stamp(result, idx, case) ==
    [passed |-> result.passed, got |-> result.got,
     expected |-> result.expected, error |-> result.error,
     case |-> idx - 1, input |-> case.input]

\* mutant of AndPassed: all_passed = result["passed"], the last case decides
AndPassedLast(all, result) == result.passed

\* all_passed &= result["passed"]
AndPassed(all, result) == all /\ result.passed

\* zip(io_cases, futures): the future awaited for position idx
ZipFuture(idx) == idx

VARIABLES
    io_cases,      \* the batch: a sequence of IOCases
    max_workers,   \* pool size
    rlimit_env,    \* what setrlimit does in this environment
    pc,            \* where evaluate_cases is
    idx,           \* position of the collection loop (1-based)
    waited,        \* seconds fut.result has waited on futures[idx]
    futures,       \* per case: state and outcome of its future
    pending,       \* work ids submitted and not yet in the call queue
    call_queue,    \* work ids prefetched for the workers
    procs,         \* the pool's worker processes
    broken,        \* the pool is broken (a worker died abruptly)
    case_results,  \* evaluate_cases' list
    all_passed,    \* evaluate_cases' flag
    raising        \* exception propagating out of evaluate_cases, or None

\* the state of the parts of the service modelled further down; each
\* specification moves one part and leaves the others where they are
VARIABLES
    wk,            \* one execution of _run_single_case, step by step
    fs,            \* the session store: the file system under TMP_ROOT
    rc,            \* one call of run_command
    cl             \* one call of a method of ReplClient

evalVars ==
    <<io_cases, max_workers, rlimit_env, pc, idx, waited, futures, pending,
      call_queue, procs, broken, case_results, all_passed, raising>>

vars == <<evalVars, wk, fs, rc, cl>>

\* a part that takes no step in the specification at hand
Off == [pc |-> "off"]

N == Len(io_cases)

Batches == UNION {[1..n -> {Case(p) : p \in Programs}] : n \in 0..MaxCases}

IdleProc ==
    [st |-> "idle", task |-> 0, elapsed |-> 0, cpu |-> 0, ran |-> {},
     rlimit_as |-> FALSE, rlimit_cpu |-> FALSE]

Init ==
    /\ io_cases \in Batches
    /\ max_workers \in 1..MaxWorkers
    /\ rlimit_env \in {"ok", "as_fails", "cpu_fails"}
    /\ pc = "start"
    /\ idx = 1
    /\ waited = 0
    /\ futures = <<>>
    /\ pending = <<>>
    /\ call_queue = <<>>
    /\ procs = <<>>
    /\ broken = FALSE
    /\ case_results = <<>>
    /\ all_passed = TRUE
    /\ raising = NoExc
    /\ wk = Off
    /\ fs = Off
    /\ rc = Off
    /\ cl = Off

\* with ProcessPoolExecutor(...) as pool: futures = [pool.submit(...) ...]
Submit ==
    /\ pc = "start"
    /\ futures' = [i \in 1..N |-> [state |-> "pending", outcome |-> NoOutcome]]
    /\ pending' = [i \in 1..N |-> i]
    /\ procs' = [p \in 1..max_workers |-> IdleProc]
    /\ pc' = IF N = 0 THEN "shutdown" ELSE "collect"
    /\ UNCHANGED <<io_cases, max_workers, rlimit_env, idx, waited, call_queue,
                   broken, case_results, all_passed, raising>>

\* the pool's manager thread moves the next work item into the call queue
\* (its future becomes running) or drops it when its future was cancelled
Prefetch ==
    /\ pc \in {"collect", "shutdown"}
    /\ ~broken
    /\ pending # <<>>
    /\ Len(call_queue) < max_workers + ExtraQueuedCalls
    /\ pending' = Tail(pending)
    /\ IF futures[Head(pending)].state = "cancelled"
       THEN UNCHANGED <<futures, call_queue>>
       ELSE /\ futures' = [futures EXCEPT ![Head(pending)].state = "running"]
            /\ call_queue' = Append(call_queue, Head(pending))
    /\ UNCHANGED <<io_cases, max_workers, rlimit_env, pc, idx, waited, procs,
                   broken, case_results, all_passed, raising>>

\* the result item of work id w reaches the manager thread
Deliver(w, outcome) ==
    [futures EXCEPT ![w] = [state |-> "finished", outcome |-> outcome]]

\* a worker process takes a call and enters _run_single_case: it sets its
\* limits and, only when both calls succeeded, starts the user's code
StartCase(p) ==
    /\ pc \in {"collect", "shutdown"}
    /\ ~broken
    /\ procs[p].st = "idle"
    /\ call_queue # <<>>
    /\ call_queue' = Tail(call_queue)
    /\ LET w == Head(call_queue)
           lim == SetLimits(procs[p], rlimit_env)
       IN IF lim.ok
          THEN /\ procs' = [procs EXCEPT ![p] =
                    [st |-> "user", task |-> w, elapsed |-> 0, cpu |-> @.cpu,
                     ran |-> @.ran \cup {w},
                     rlimit_as |-> lim.rlimit_as, rlimit_cpu |-> lim.rlimit_cpu]]
               /\ UNCHANGED futures
          ELSE /\ procs' = [procs EXCEPT ![p].rlimit_as = lim.rlimit_as,
                                         ![p].rlimit_cpu = lim.rlimit_cpu]
               /\ futures' = Deliver(w, ResultOutcome(ErrorResult(io_cases[w], "ValueError")))
    /\ UNCHANGED <<io_cases, max_workers, rlimit_env, pc, idx, waited, pending,
                   broken, case_results, all_passed, raising>>

RunningProgram(proc) == ProgramOf(io_cases[proc.task])

\* RLIMIT_CPU: the process has used its CPU seconds; SIGXCPU ends it
Killed(proc) == proc.rlimit_cpu /\ proc.cpu >= CpuSeconds

\* the user's code of the case ends and the worker sends its outcome back
FinishCase(p) ==
    /\ procs[p].st = "user"
    /\ ~NeverEnds(RunningProgram(procs[p]))
    /\ RunningProgram(procs[p]) # "crash"
    /\ procs[p].elapsed >= Duration(RunningProgram(procs[p]))
    /\ futures' = Deliver(procs[p].task, WorkerOutcome(io_cases[procs[p].task]))
    /\ procs' = [procs EXCEPT ![p].st = "idle", ![p].task = 0, ![p].elapsed = 0]
    /\ UNCHANGED <<io_cases, max_workers, rlimit_env, pc, idx, waited, pending,
                   call_queue, broken, case_results, all_passed, raising>>

\* a worker process dies abruptly (the user's code kills it, or the CPU limit
\* does): the pool is broken, every future not yet finished fails with
\* BrokenProcessPool and the other workers are terminated
Crash(p) ==
    /\ procs[p].st = "user"
    /\ RunningProgram(procs[p]) = "crash" \/ Killed(procs[p])
    /\ broken' = TRUE
    /\ futures' = [i \in 1..N |->
          IF futures[i].state \in {"pending", "running"}
          THEN [state |-> "finished", outcome |-> ExcOutcome("BrokenProcessPool", TRUE)]
          ELSE futures[i]]
    /\ procs' = [q \in 1..max_workers |->
          [procs[q] EXCEPT !.st = "dead", !.task = 0, !.elapsed = 0]]
    /\ pending' = <<>>
    /\ call_queue' = <<>>
    /\ UNCHANGED <<io_cases, max_workers, rlimit_env, pc, idx, waited,
                   case_results, all_passed, raising>>

\* ---- the collection loop: for idx, (case, fut) in enumerate(zip(...)) ----
\* mutant of CurFuture: the loop takes whichever future has finished first
\* (completion order) instead of the future submitted for position idx
AnyFinishedFuture ==
    IF \E i \in DOMAIN futures : futures[i].state = "finished" /\ i > idx
    THEN futures[CHOOSE i \in DOMAIN futures : futures[i].state = "finished" /\ i > idx]
    ELSE futures[ZipFuture(idx)]

CurFuture == futures[ZipFuture(idx)]

\* result["case"] = idx ... all_passed &= result["passed"], and the loop's
\* next step (leaving the loop leaves the with block, which shuts the pool)
Record(result) ==
    /\ case_results' = Append(case_results, Stamp(result, idx, io_cases[idx]))
    /\ all_passed' = AndPassed(all_passed, result)
    /\ idx' = idx + 1
    /\ waited' = 0
    /\ pc' = IF idx + 1 > N THEN "shutdown" ELSE "collect"

\* fut.result(timeout) returns the worker's dict
CollectResult ==
    /\ pc = "collect"
    /\ CurFuture.state = "finished"
    /\ CurFuture.outcome.kind = "result"
    /\ Record(CurFuture.outcome.value)
    /\ UNCHANGED <<io_cases, max_workers, rlimit_env, futures, pending,
                   call_queue, procs, broken, raising>>

\* fut.result(timeout) raises an Exception: except Exception as e
CollectError ==
    /\ pc = "collect"
    /\ \/ /\ CurFuture.state = "finished"
          /\ CurFuture.outcome.kind = "exception"
          /\ CurFuture.outcome.is_exception
          /\ Record(InfraResult(io_cases[idx], CurFuture.outcome.exc))
       \/ /\ CurFuture.state = "cancelled"
          /\ Record(InfraResult(io_cases[idx], "CancelledError"))
    /\ UNCHANGED <<io_cases, max_workers, rlimit_env, futures, pending,
                   call_queue, procs, broken, raising>>

\* fut.result(timeout) raises something neither except clause catches: it
\* leaves the loop and the with block, and evaluate_cases raises it
CollectRaise ==
    /\ pc = "collect"
    /\ CurFuture.state = "finished"
    /\ CurFuture.outcome.kind = "exception"
    /\ ~CurFuture.outcome.is_exception
    /\ raising' = CurFuture.outcome.exc
    /\ pc' = "shutdown"
    /\ UNCHANGED <<io_cases, max_workers, rlimit_env, idx, waited, futures,
                   pending, call_queue, procs, broken, case_results, all_passed>>

\* fut.result(timeout) raises TimeoutError: fut.cancel() (which only a future
\* still pending obeys) and the made-up Timeout result.  (Python 3.11 on,
\* where concurrent.futures.TimeoutError is the builtin TimeoutError.)
CollectTimeout ==
    /\ pc = "collect"
    /\ CurFuture.state \in {"pending", "running"}
    /\ waited >= Timeout
    /\ futures' = IF CurFuture.state = "pending"
                  THEN [futures EXCEPT ![ZipFuture(idx)].state = "cancelled"]
                  ELSE futures
    /\ Record(TimeoutResult(io_cases[idx]))
    /\ UNCHANGED <<io_cases, max_workers, rlimit_env, pending, call_queue,
                   procs, broken, raising>>

\* ProcessPoolExecutor.__exit__ = shutdown(wait=True): returns once every
\* submitted call has run to its end (or the pool broke), then the workers exit
PoolDrained ==
    broken \/ \A i \in 1..N : futures[i].state \in {"finished", "cancelled"}

PoolExit ==
    /\ pc = "shutdown"
    /\ PoolDrained
    /\ pc' = IF raising = NoExc THEN "returned" ELSE "raised"
    /\ procs' = [q \in 1..max_workers |->
          [procs[q] EXCEPT !.st = IF @ = "dead" THEN "dead" ELSE "exited"]]
    /\ UNCHANGED <<io_cases, max_workers, rlimit_env, idx, waited, futures,
                   pending, call_queue, broken, case_results, all_passed, raising>>

\* everything that takes no time
Instant ==
    \/ Submit
    \/ Prefetch
    \/ \E p \in DOMAIN procs : StartCase(p) \/ FinishCase(p) \/ Crash(p)
    \/ CollectResult
    \/ CollectError
    \/ CollectRaise
    \/ CollectTimeout
    \/ PoolExit

\* a second passes: for the orchestrator's wait and for the user code running
Clocked(proc) == proc.st = "user" /\ RunningProgram(proc) # "hang"

Tick ==
    /\ ~ENABLED Instant
    /\ pc = "collect" \/ \E p \in DOMAIN procs : Clocked(procs[p])
    /\ waited' = IF pc = "collect" THEN waited + 1 ELSE waited
    /\ procs' = [p \in DOMAIN procs |->
          IF Clocked(procs[p])
          THEN [procs[p] EXCEPT
                  !.elapsed = IF NeverEnds(RunningProgram(procs[p])) THEN @ ELSE @ + 1,
                  !.cpu = IF CpuBound(RunningProgram(procs[p])) THEN @ + 1 ELSE @]
          ELSE procs[p]]
    /\ UNCHANGED <<io_cases, max_workers, rlimit_env, pc, idx, futures, pending,
                   call_queue, broken, case_results, all_passed, raising>>

Next ==
    \/ Submit /\ UNCHANGED <<wk, fs, rc, cl>>
    \/ Prefetch /\ UNCHANGED <<wk, fs, rc, cl>>
    \/ \E p \in DOMAIN procs : StartCase(p) /\ UNCHANGED <<wk, fs, rc, cl>>
    \/ \E p \in DOMAIN procs : FinishCase(p) /\ UNCHANGED <<wk, fs, rc, cl>>
    \/ \E p \in DOMAIN procs : Crash(p) /\ UNCHANGED <<wk, fs, rc, cl>>
    \/ CollectResult /\ UNCHANGED <<wk, fs, rc, cl>>
    \/ CollectError /\ UNCHANGED <<wk, fs, rc, cl>>
    \/ CollectRaise /\ UNCHANGED <<wk, fs, rc, cl>>
    \/ CollectTimeout /\ UNCHANGED <<wk, fs, rc, cl>>
    \/ PoolExit /\ UNCHANGED <<wk, fs, rc, cl>>
    \/ Tick /\ UNCHANGED <<wk, fs, rc, cl>>

Spec == Init /\ [][Next]_vars

\* ------------------------------------------------------------ the claims
\* the worker's part of a collected entry
Strip(r) == [passed |-> r.passed, got |-> r.got, expected |-> r.expected, error |-> r.error]

\* the dicts the code can produce for a case
ResultsFor(case) ==
    {RunSingleCase(case), ErrorResult(case, "ValueError"), TimeoutResult(case)}
    \cup {InfraResult(case, k) : k \in {"PicklingError", "BrokenProcessPool"}}

\* what evaluate_cases reports for a case whose user code ends by itself and
\* leaves the process alive, when the case is the only one of its batch
AloneVerdict(case) ==
    IF Picklable(RunSingleCase(case).got)
    THEN RunSingleCase(case)
    ELSE InfraResult(case, "PicklingError")

\* programs that end by themselves well within the timeout, alive
Contained == {"pass", "wrong", "raise", "unpicklable", "busy"}

Returned == pc = "returned"

\* C1: when evaluate_cases returns, case_results has one entry per input
\* case, entry i carries case = i and the input of case i, and its verdict is
\* one produced for case i, whatever the order in which the workers finished.
C1_ResultsInSubmissionOrder ==
    Returned =>
        /\ Len(case_results) = N
        /\ \A i \in 1..N :
              /\ case_results[i].case = i - 1
              /\ case_results[i].input = io_cases[i].input
              /\ Strip(case_results[i]) \in ResultsFor(io_cases[i])

\* C1 witness: a batch returned whose second case finished before its first
C1_Witness ==
    /\ Returned
    /\ N = 2
    /\ max_workers = 2
    /\ ProgramOf(io_cases[1]) = "busy"
    /\ ProgramOf(io_cases[2]) = "wrong"
    /\ case_results[1].passed
    /\ ~case_results[2].passed

\* C2: no per-case failure makes evaluate_cases raise to its caller.
C2_NeverRaises == pc # "raised"

\* C3: when exactly one case never finishes and every other case ends by
\* itself well within the timeout, a returned batch holds exactly one
\* timeout/resource error and every other case has the verdict it has alone.
C3_TimeoutHitsOneCaseOnly ==
    (/\ Returned
     /\ rlimit_env = "ok"
     /\ \E i \in 1..N :
           /\ NeverEnds(ProgramOf(io_cases[i]))
           /\ \A j \in (1..N) \ {i} : ProgramOf(io_cases[j]) \in Contained)
    => \A i \in 1..N :
          IF NeverEnds(ProgramOf(io_cases[i]))
          THEN case_results[i].error \in
                  {<<"Timeout">>, <<"BrokenProcessPool", "message">>}
          ELSE Strip(case_results[i]) = AloneVerdict(io_cases[i])

\* C4: when the process of exactly one case is killed, that case fails with
\* an error and every other (contained) case has the verdict it has without
\* the crashing case.
C4_CrashHitsOneCaseOnly ==
    (/\ Returned
     /\ rlimit_env = "ok"
     /\ \E i \in 1..N :
           /\ ProgramOf(io_cases[i]) = "crash"
           /\ \A j \in (1..N) \ {i} : ProgramOf(io_cases[j]) \in Contained)
    => \A i \in 1..N :
          IF ProgramOf(io_cases[i]) = "crash"
          THEN ~case_results[i].passed /\ case_results[i].error # None
          ELSE Strip(case_results[i]) = AloneVerdict(io_cases[i])

\* C5: evaluate_cases always comes to its end: as long as it has not returned
\* the system can take a step, so it never waits for a worker that will not
\* finish (the runs in which an exception is on its way out are C2's).
C5_NeverWaitsForEver == Returned \/ raising # NoExc \/ ENABLED Next

\* C6: a case whose user code runs longer than the per-case timeout is never
\* reported as passed: its entry is passed = false, got = none, expected = the
\* output text, with an error, wherever the case stands in the batch.
C6_OverlongCaseFails ==
    \A i \in 1..Len(case_results) :
        (\/ NeverEnds(ProgramOf(io_cases[i]))
         \/ Duration(ProgramOf(io_cases[i])) > Timeout)
        => /\ ~case_results[i].passed
           /\ case_results[i].got = None
           /\ case_results[i].expected = io_cases[i].output
           /\ case_results[i].error # None

\* C7: the returned all_passed is the conjunction of passed over the complete
\* list; an empty batch returns true and the empty list.
C7_AllPassedIsConjunction ==
    Returned =>
        /\ Len(case_results) = N
        /\ all_passed = (\A i \in 1..N : case_results[i].passed)
        /\ N = 0 => all_passed /\ case_results = <<>>

\* C7 witness: a returned batch whose first case failed and whose last passed
C7_Witness ==
    /\ Returned
    /\ N = 2
    /\ ~case_results[1].passed
    /\ case_results[2].passed
    /\ ~all_passed

\* C8: no result dict, made by a worker or made up by the orchestrator, has
\* passed = true together with an error.
C8_NoPassedWithError ==
    /\ \A i \in 1..Len(case_results) :
          ~(case_results[i].passed /\ case_results[i].error # None)
    /\ \A i \in DOMAIN futures :
          futures[i].outcome.kind = "result" =>
             ~(futures[i].outcome.value.passed /\ futures[i].outcome.value.error # None)

\* C8 witness: a list holding a made-up Timeout entry and a worker's pass
C8_Witness ==
    /\ Len(case_results) = 2
    /\ case_results[1].error = <<"Timeout">>
    /\ case_results[2].passed
    /\ case_results[2].error = None

\* C9: no worker process runs the user code of more than one case.
C9_OneCasePerProcess ==
    \A p \in DOMAIN procs : Cardinality(procs[p].ran) <= 1

\* C10: user code has run in a process only if both limits are in force
\* there; where a setrlimit call fails no user code runs at all and every
\* outcome a worker sends is an error result.
C10_LimitsBeforeUserCode ==
    /\ \A p \in DOMAIN procs :
          /\ procs[p].st = "user" \/ procs[p].ran # {}
                => procs[p].rlimit_as /\ procs[p].rlimit_cpu
          /\ rlimit_env # "ok" => procs[p].st # "user" /\ procs[p].ran = {}
    /\ rlimit_env # "ok" =>
          \A i \in DOMAIN futures :
             futures[i].state = "finished" =>
                /\ futures[i].outcome.kind = "result"
                /\ ~futures[i].outcome.value.passed
                /\ futures[i].outcome.value.error # None

\* C10 witness: the CPU limit could not be set and the case came back as an
\* error, in a process that ran no user code
C10_Witness ==
    /\ rlimit_env = "cpu_fails"
    /\ \E i \in DOMAIN futures :
          /\ futures[i].state = "finished"
          /\ futures[i].outcome.value.error = <<"ValueError", "traceback">>
    /\ \E p \in DOMAIN procs : procs[p].rlimit_as /\ ~procs[p].rlimit_cpu /\ procs[p].ran = {}

\* ======================================================================
\* One execution of _run_single_case, step by step (specification
\* SpecWorker): limits, load, argument parsing, entry point, binding, call,
\* expected value, result.
\* ======================================================================
MaxPairs == 2

\* the evaluator stays where it is while another part is looked at
EvalOff ==
    /\ io_cases = <<>>
    /\ max_workers = 1
    /\ rlimit_env = "ok"
    /\ pc = "off"
    /\ idx = 1
    /\ waited = 0
    /\ futures = <<>>
    /\ pending = <<>>
    /\ call_queue = <<>>
    /\ procs = <<>>
    /\ broken = FALSE
    /\ case_results = <<>>
    /\ all_passed = TRUE
    /\ raising = NoExc

\* texts and values are kept apart: Text("1") is the text, V(1) the number
Text(t) == <<"text", t>>
V(n) == <<"int", n>>

\* the value texts met in inputs and outputs: two literals, a name the
\* submitted code defines (K = 1), and a name nothing defines
IsLiteral(text) == text \in {Text("1"), Text("2")}

\* ast.literal_eval on a literal text
LiteralValue(text) == IF text = Text("1") THEN V(1) ELSE V(2)

\* case["input"] as the worker's two parsers see it:
\*   pairs    name=value, name=value, ...   (value a literal text or not)
\*   literal  one literal and no name= in it
\*   other    neither
ParamNames == {"a", "b"}
PairItems == [name : ParamNames, text : {Text("1"), Text("2"), Text("oops")}]
PairSeqs == UNION {[1..n -> PairItems] : n \in 1..MaxPairs}
InputTexts ==
    {[kind |-> "pairs", pairs |-> ps, text |-> Text("pairs")] : ps \in PairSeqs}
    \cup {[kind |-> "literal", pairs |-> <<>>, text |-> t] : t \in {Text("1"), Text("2")}}
    \cup {[kind |-> "other", pairs |-> <<>>, text |-> Text("oops")]}

OutputTexts == {Text("1"), Text("2"), Text("K"), Text("undefined")}

\* what exec(code) and eval(entry_point) do:
\*   ok          the code loads and defines the entry point and K = 1
\*   load_error  exec(code) raises (syntax error, exception at top level)
\*   no_entry    the code loads and defines K, but not the entry point
Codes == {"ok", "load_error", "no_entry"}

\* the callable eval(entry_point) gives: what getfullargspec reports as its
\* args, whether it is a bound method (self is then supplied by the call),
\* and its body: "first" returns its first argument (0 without one),
\* "const" returns 1, "raise" raises
Signatures ==
    {[args |-> <<>>, bound |-> FALSE],
     [args |-> <<"a">>, bound |-> FALSE],
     [args |-> <<"a", "b">>, bound |-> FALSE],
     [args |-> <<"self", "a">>, bound |-> TRUE],
     [args |-> <<"self", "a">>, bound |-> FALSE]}
Callables ==
    {[args |-> g.args, bound |-> g.bound, body |-> b] :
        g \in Signatures, b \in {"first", "const", "raise"}}

EmptyDict == [x \in {} |-> None]
Put(d, k, v) == [x \in DOMAIN d \cup {k} |-> IF x = k THEN v ELSE d[x]]

\* _parse_kw: every name=value match, in the order of the text, whose value
\* literal_eval accepts, goes into the dict (a later one replaces an earlier)
RECURSIVE ParseKwFrom(_, _, _)
ParseKwFrom(pairs, j, out) ==
    IF j > Len(pairs)
    THEN out
    ELSE ParseKwFrom(pairs, j + 1,
            IF IsLiteral(pairs[j].text)
            THEN Put(out, pairs[j].name, LiteralValue(pairs[j].text))
            ELSE out)

ParseKw(input) == ParseKwFrom(input.pairs, 1, EmptyDict)

\* _parse_list: [literal_eval(input.strip())], or [] when that raises
ParseList(input) ==
    IF input.kind = "literal" THEN <<LiteralValue(input.text)>> ELSE <<>>

\* arg_spec.args[1:] if arg_spec.args and arg_spec.args[0] == "self"
ArgNames(callable) ==
    IF callable.args # <<>> /\ callable.args[1] = "self"
    THEN Tail(callable.args)
    ELSE callable.args

\* mutant of BindArgs: the parsed values are bound to the wrong positions
\* (the declared order read backwards)
BindArgsMisplaced(params, list_params, arg_names) ==
    IF DOMAIN params # {}
    THEN IF \E i \in DOMAIN arg_names : arg_names[i] \notin DOMAIN params
         THEN [exc |-> "KeyError", args |-> <<>>]
         ELSE [exc |-> NoExc,
               args |-> [i \in DOMAIN arg_names |->
                           params[arg_names[Len(arg_names) + 1 - i]]]]
    ELSE [exc |-> NoExc, args |-> list_params]

\* args = [params[a] for a in arg_names] if params else list_params
BindArgs(params, list_params, arg_names) ==
    IF DOMAIN params # {}
    THEN IF \E i \in DOMAIN arg_names : arg_names[i] \notin DOMAIN params
         THEN [exc |-> "KeyError", args |-> <<>>]
         ELSE [exc |-> NoExc,
               args |-> [i \in DOMAIN arg_names |-> params[arg_names[i]]]]
    ELSE [exc |-> NoExc, args |-> list_params]

\* func(*args): a wrong number of arguments raises TypeError
Call(callable, args) ==
    IF Len(args) # Len(callable.args) - (IF callable.bound THEN 1 ELSE 0)
    THEN [exc |-> "TypeError", got |-> None]
    ELSE CASE callable.body = "raise" -> [exc |-> "RuntimeError", got |-> None]
           [] callable.body = "const" -> [exc |-> NoExc, got |-> V(1)]
           [] OTHER -> [exc |-> NoExc, got |-> IF args = <<>> THEN V(0) ELSE args[1]]

\* mutant of ExpectedValue: no fallback to the loaded namespace
ExpectedLiteralOnly(output) ==
    IF IsLiteral(output)
    THEN [exc |-> NoExc, expected |-> LiteralValue(output)]
    ELSE [exc |-> "ValueError", expected |-> None]

\* expected = literal_eval(output), and when that raises,
\* eval(output, exec_globals)
ExpectedValue(output) ==
    IF IsLiteral(output)
    THEN [exc |-> NoExc, expected |-> LiteralValue(output)]
    ELSE IF output = Text("K")
         THEN [exc |-> NoExc, expected |-> V(1)]
         ELSE [exc |-> "NameError", expected |-> None]

\* the dict returned when no step raised
ReturnDict(got, expected) ==
    [passed |-> got = expected, got |-> got, expected |-> expected, error |-> None]

NoResult == [passed |-> FALSE, got |-> None, expected |-> None, error |-> None]

WorkerInit ==
    /\ EvalOff
    /\ fs = Off
    /\ rc = Off
    /\ cl = Off
    /\ \E env \in {"ok", "as_fails", "cpu_fails"}, code \in Codes,
          callable \in Callables, input \in InputTexts, output \in OutputTexts :
          wk = [pc |-> "limits", env |-> env, code |-> code, callable |-> callable,
                case |-> [input |-> input, output |-> output],
                params |-> EmptyDict, list_params |-> <<>>, arg_names |-> <<>>,
                args |-> <<>>, called |-> FALSE, got |-> None, expected |-> None,
                exc |-> NoExc, result |-> NoResult]

\* except Exception as e: return {...}
Raise(kind) ==
    wk' = [wk EXCEPT !.pc = "done", !.exc = kind,
                     !.result = ErrorResult(wk.case, kind)]

\* resource.setrlimit(RLIMIT_AS, ...), resource.setrlimit(RLIMIT_CPU, ...)
WkLimits ==
    /\ wk.pc = "limits"
    /\ IF SetLimits(IdleProc, wk.env).ok
       THEN wk' = [wk EXCEPT !.pc = "load"]
       ELSE Raise("ValueError")
    /\ UNCHANGED <<evalVars, fs, rc, cl>>

\* exec(code, exec_globals)
WkLoad ==
    /\ wk.pc = "load"
    /\ IF wk.code = "load_error"
       THEN Raise("SyntaxError")
       ELSE wk' = [wk EXCEPT !.pc = "parse"]
    /\ UNCHANGED <<evalVars, fs, rc, cl>>

\* params = _parse_kw(...); list_params = _parse_list(...) if not params else []
WkParse ==
    /\ wk.pc = "parse"
    /\ wk' = [wk EXCEPT
                !.pc = "resolve",
                !.params = ParseKw(wk.case.input),
                !.list_params = IF DOMAIN ParseKw(wk.case.input) = {}
                                THEN ParseList(wk.case.input)
                                ELSE <<>>]
    /\ UNCHANGED <<evalVars, fs, rc, cl>>

\* func = eval(entry_point, exec_globals); arg_names = ...
WkResolve ==
    /\ wk.pc = "resolve"
    /\ IF wk.code = "no_entry"
       THEN Raise("NameError")
       ELSE wk' = [wk EXCEPT !.pc = "bind", !.arg_names = ArgNames(wk.callable)]
    /\ UNCHANGED <<evalVars, fs, rc, cl>>

\* args = ...
WkBind ==
    /\ wk.pc = "bind"
    /\ LET b == BindArgs(wk.params, wk.list_params, wk.arg_names)
       IN IF b.exc # NoExc
          THEN Raise(b.exc)
          ELSE wk' = [wk EXCEPT !.pc = "call", !.args = b.args]
    /\ UNCHANGED <<evalVars, fs, rc, cl>>

\* got = func(*args)
WkCall ==
    /\ wk.pc = "call"
    /\ LET c == Call(wk.callable, wk.args)
       IN IF c.exc # NoExc
          THEN wk' = [wk EXCEPT !.pc = "done", !.exc = c.exc, !.called = TRUE,
                                !.result = ErrorResult(wk.case, c.exc)]
          ELSE wk' = [wk EXCEPT !.pc = "expected", !.called = TRUE, !.got = c.got]
    /\ UNCHANGED <<evalVars, fs, rc, cl>>

\* expected = literal_eval(case["output"]) / eval(case["output"], exec_globals)
WkExpected ==
    /\ wk.pc = "expected"
    /\ LET x == ExpectedValue(wk.case.output)
       IN IF x.exc # NoExc
          THEN Raise(x.exc)
          ELSE wk' = [wk EXCEPT !.pc = "return", !.expected = x.expected]
    /\ UNCHANGED <<evalVars, fs, rc, cl>>

\* return {"passed": got == expected, ...}
WkReturn ==
    /\ wk.pc = "return"
    /\ wk' = [wk EXCEPT !.pc = "done", !.result = ReturnDict(wk.got, wk.expected)]
    /\ UNCHANGED <<evalVars, fs, rc, cl>>

WorkerNext ==
    \/ WkLimits
    \/ WkLoad
    \/ WkParse
    \/ WkResolve
    \/ WkBind
    \/ WkCall
    \/ WkExpected
    \/ WkReturn

SpecWorker == WorkerInit /\ [][WorkerNext]_vars

\* ----------------------------------------------- the claims on the worker
WkDone == wk.pc = "done"
WkPairs == wk.case.input.pairs
HasLiteralPair == \E j \in DOMAIN WkPairs : IsLiteral(WkPairs[j].text)

\* the declared parameters, a leading self left out
Declared ==
    IF wk.callable.args # <<>> /\ wk.callable.args[1] = "self"
    THEN SubSeq(wk.callable.args, 2, Len(wk.callable.args))
    ELSE wk.callable.args

\* some declared parameter has no name=value pair with a literal value
MissingPair ==
    \E k \in DOMAIN Declared :
       \A j \in DOMAIN WkPairs :
          WkPairs[j].name # Declared[k] \/ ~IsLiteral(WkPairs[j].text)

C12_SuccessResult ==
    WkDone =>
       /\ wk.exc = NoExc =>
             /\ wk.result.error = None
             /\ wk.result.got = wk.got
             /\ wk.result.expected = wk.expected
             /\ wk.result.passed = (wk.got = wk.expected)
             /\ wk.case.output = Text("1") => wk.expected = V(1)
             /\ wk.case.output = Text("2") => wk.expected = V(2)
             /\ wk.case.output = Text("K") => wk.expected = V(1)
       /\ wk.got # None /\ wk.case.output # Text("undefined") => wk.exc = NoExc

\* C12 witness: the expected value came from the loaded namespace and the
\* case passed
C12_Witness ==
    /\ WkDone
    /\ wk.case.output = Text("K")
    /\ wk.result.passed
    /\ wk.result.error = None
    /\ wk.result.expected = V(1)

\* C20: the arguments of the call are, when some name=value pair has a
\* literal value, the parsed values in declared parameter order (a leading
\* self left out), whatever the order of the pairs; else the one literal the
\* whole input denotes; else none.  A declared parameter without a parsed
\* pair gives an error result and no call.
C20_ArgumentBinding ==
    /\ wk.pc \in {"call", "expected", "return"} \/ (WkDone /\ wk.called) =>
          IF HasLiteralPair
          THEN /\ Len(wk.args) = Len(Declared)
               /\ \A k \in DOMAIN Declared :
                     \E j \in DOMAIN WkPairs :
                        /\ WkPairs[j].name = Declared[k]
                        /\ IsLiteral(WkPairs[j].text)
                        /\ wk.args[k] = LiteralValue(WkPairs[j].text)
                        /\ \A i \in DOMAIN WkPairs :
                              i > j => WkPairs[i].name # Declared[k]
                                       \/ ~IsLiteral(WkPairs[i].text)
          ELSE IF wk.case.input.kind = "literal"
               THEN wk.args = <<LiteralValue(wk.case.input.text)>>
               ELSE wk.args = <<>>
    /\ WkDone /\ wk.env = "ok" /\ wk.code = "ok" /\ HasLiteralPair /\ MissingPair =>
          /\ ~wk.called
          /\ ~wk.result.passed
          /\ wk.result.error = <<"KeyError", "traceback">>

\* C20 witness: b=2, a=1 given to f(a, b) calls f(1, 2)
C20_Witness ==
    /\ wk.called
    /\ wk.callable.args = <<"a", "b">>
    /\ WkPairs = <<[name |-> "b", text |-> Text("2")], [name |-> "a", text |-> Text("1")]>>
    /\ wk.args = <<V(1), V(2)>>

\* ======================================================== the session store
\* Texts (session ids, relative paths) are sequences of characters, a name is
\* the sequence of its characters and a path is the sequence of its names
\* from the root directory of the machine.

Slash == "/"
Dot == <<".">>
DotDot == <<".", ".">>

\* text.startswith(prefix)
StartsWith(text, prefix) ==
    /\ Len(prefix) <= Len(text)
    /\ SubSeq(text, 1, Len(prefix)) = prefix

\* text.split("/")
RECURSIVE Split(_)
Split(text) ==
    IF \A i \in DOMAIN text : text[i] # Slash
    THEN <<text>>
    ELSE LET k == CHOOSE i \in DOMAIN text :
                     text[i] = Slash /\ \A j \in 1..(i - 1) : text[j] # Slash
         IN  <<SubSeq(text, 1, k - 1)>> \o Split(SubSeq(text, k + 1, Len(text)))

\* "/".join(comps)
RECURSIVE JoinComps(_)
JoinComps(comps) ==
    IF comps = <<>> THEN <<>>
    ELSE IF Len(comps) = 1 THEN comps[1]
    ELSE comps[1] \o <<Slash>> \o JoinComps(Tail(comps))

\* the loop of os.path.normpath over the components
RECURSIVE NormComps(_, _, _)
NormComps(comps, initial_slashes, new_comps) ==
    IF comps = <<>> THEN new_comps
    ELSE LET comp == Head(comps)
             n == Len(new_comps)
         IN  IF comp = <<>> \/ comp = Dot
             THEN NormComps(Tail(comps), initial_slashes, new_comps)
             ELSE IF \/ comp # DotDot
                     \/ (initial_slashes = 0 /\ n = 0)
                     \/ (n > 0 /\ new_comps[n] = DotDot)
             THEN NormComps(Tail(comps), initial_slashes, Append(new_comps, comp))
             ELSE IF n > 0
             THEN NormComps(Tail(comps), initial_slashes, SubSeq(new_comps, 1, n - 1))
             ELSE NormComps(Tail(comps), initial_slashes, new_comps)

\* os.path.normpath (posixpath)
Normpath(path) ==
    IF path = <<>> THEN Dot
    ELSE LET initial_slashes ==
                 IF ~StartsWith(path, <<Slash>>) THEN 0
                 ELSE IF StartsWith(path, <<Slash, Slash>>)
                         /\ ~StartsWith(path, <<Slash, Slash, Slash>>)
                      THEN 2
                      ELSE 1
             joined == JoinComps(NormComps(Split(path), initial_slashes, <<>>))
             text == [i \in 1..initial_slashes |-> Slash] \o joined
         IN  IF text = <<>> THEN Dot ELSE text

\* mutant of SafeRelPath: the checks are made on the path as given, without
\* normalizing it first
SafeRelPathAsGiven(rel_path) ==
    IF StartsWith(rel_path, <<".", ".", Slash>>) \/ StartsWith(rel_path, <<Slash>>)
    THEN [ok |-> FALSE, path |-> rel_path, detail |-> "Invalid path"]
    ELSE IF rel_path = DotDot
    THEN [ok |-> FALSE, path |-> rel_path,
          detail |-> "Invalid path: Parent traversal not allowed"]
    ELSE [ok |-> TRUE, path |-> rel_path, detail |-> "none"]

\* safe_rel_path: the normalized path, or the ValueError it raises
SafeRelPath(rel_path) ==
    LET norm == Normpath(rel_path)
    IN  IF StartsWith(norm, <<".", ".", Slash>>) \/ StartsWith(norm, <<Slash>>)
        THEN [ok |-> FALSE, path |-> norm, detail |-> "Invalid path"]
        ELSE IF LET comps == Split(norm) IN \E i \in DOMAIN comps : comps[i] = DotDot
        THEN [ok |-> FALSE, path |-> norm,
              detail |-> "Invalid path: Parent traversal not allowed"]
        ELSE [ok |-> TRUE, path |-> norm, detail |-> "none"]

\* str.replace(old, new) for the two replacements of safe_dirname
RECURSIVE ReplaceAll(_, _, _)
ReplaceAll(text, old, new) ==
    IF text = <<>> THEN <<>>
    ELSE IF StartsWith(text, old)
    THEN new \o ReplaceAll(SubSeq(text, Len(old) + 1, Len(text)), old, new)
    ELSE <<Head(text)>> \o ReplaceAll(Tail(text), old, new)

TMP_ROOT == <<Slash, "t">>

\* os.path.join(a, b) for a relative b
JoinPath(a, b) ==
    IF a = <<>> \/ a[Len(a)] = Slash THEN a \o b ELSE a \o <<Slash>> \o b

\* safe_dirname
SafeDirname(session_id) ==
    JoinPath(TMP_ROOT,
             ReplaceAll(ReplaceAll(session_id, <<Slash>>, <<"_">>), DotDot, <<"_", "_">>))

\* os.path.abspath of an absolute path
Abspath(path) == Normpath(path)

\* os.path.dirname
Dirname(path) ==
    LET slashes == {i \in DOMAIN path : path[i] = Slash}
    IN  IF slashes = {} THEN <<>>
        ELSE LET k == CHOOSE i \in slashes : \A j \in slashes : j <= i
                 head == SubSeq(path, 1, k)
                 stripped == CHOOSE h \in {SubSeq(head, 1, m) : m \in 0..Len(head)} :
                                /\ h = <<>> \/ h[Len(h)] # Slash
                                /\ \A i \in (Len(h) + 1)..Len(head) : head[i] = Slash
             IN  IF \A i \in DOMAIN head : head[i] = Slash THEN head ELSE stripped

\* ------------------------------------------------------- the file system
\* A tree maps the location of every existing entry (the sequence of names
\* from the root directory) to a directory, a regular file with its content
\* or a symbolic link with its target text.  The root directory is <<>>.
Dir == <<"dir">>
Absent == <<"absent">>
File(content) == <<"file", content>>
Link(target) == <<"link", target>>
IsLink(node) == node[1] = "link"
IsRegular(node) == node[1] = "file"

NodeAt(tree, loc) ==
    IF loc = <<>> THEN Dir
    ELSE IF loc \in DOMAIN tree THEN tree[loc] ELSE Absent

SetNode(tree, loc, node) ==
    [l \in DOMAIN tree \cup {loc} |-> IF l = loc THEN node ELSE tree[l]]

DelNode(tree, loc) == [l \in DOMAIN tree \ {loc} |-> tree[l]]

\* path resolution of the kernel: the location the path names, every
\* component before the last one being a directory or a link to one
RECURSIVE Resolve(_, _, _, _)
Resolve(tree, cur, comps, follow_last) ==
    IF comps = <<>> THEN [ok |-> TRUE, loc |-> cur, err |-> "none"]
    ELSE IF NodeAt(tree, cur) = Absent
    THEN [ok |-> FALSE, loc |-> cur, err |-> "FileNotFoundError"]
    ELSE IF NodeAt(tree, cur) # Dir
    THEN [ok |-> FALSE, loc |-> cur, err |-> "NotADirectoryError"]
    ELSE LET comp == Head(comps)
             next == Append(cur, comp)
             node == NodeAt(tree, next)
         IN  IF comp = <<>> \/ comp = Dot
             THEN Resolve(tree, cur, Tail(comps), follow_last)
             ELSE IF IsLink(node) /\ (Tail(comps) # <<>> \/ follow_last)
             THEN Resolve(tree, <<>>, Split(node[2]) \o Tail(comps), follow_last)
             ELSE Resolve(tree, next, Tail(comps), follow_last)

Lookup(tree, path) == Resolve(tree, <<>>, Split(path), TRUE)
LookupEntry(tree, path) == Resolve(tree, <<>>, Split(path), FALSE)

\* os.path.exists, os.path.isdir, os.path.isfile
Exists(tree, path) ==
    Lookup(tree, path).ok /\ NodeAt(tree, Lookup(tree, path).loc) # Absent
IsDir(tree, path) ==
    Lookup(tree, path).ok /\ NodeAt(tree, Lookup(tree, path).loc) = Dir
IsFile(tree, path) ==
    Lookup(tree, path).ok /\ IsRegular(NodeAt(tree, Lookup(tree, path).loc))

Done(tree) == [ok |-> TRUE, tree |-> tree, err |-> "none"]
Failed(tree, err) == [ok |-> FALSE, tree |-> tree, err |-> err]

\* os.mkdir
Mkdir(tree, path) ==
    LET r == LookupEntry(tree, path)
    IN  IF ~r.ok THEN Failed(tree, r.err)
        ELSE IF NodeAt(tree, r.loc) # Absent THEN Failed(tree, "FileExistsError")
        ELSE Done(SetNode(tree, r.loc, Dir))

\* os.makedirs(path, exist_ok = exist_ok)
RECURSIVE Makedirs(_, _, _)
Makedirs(tree, path, exist_ok) ==
    LET head == Dirname(path)
        up == IF head # <<>> /\ head # path /\ ~Exists(tree, head)
              THEN Makedirs(tree, head, exist_ok)
              ELSE Done(tree)
        made == Mkdir(up.tree, path)
    IN  IF ~up.ok /\ up.err # "FileExistsError" THEN up
        ELSE IF made.ok THEN made
        ELSE IF exist_ok /\ IsDir(up.tree, path) THEN Done(up.tree)
        ELSE made

\* open(path, "w").write(content)
OpenWrite(tree, path, content) ==
    LET r == Lookup(tree, path)
    IN  IF ~r.ok THEN Failed(tree, r.err)
        ELSE IF NodeAt(tree, r.loc) = Dir THEN Failed(tree, "IsADirectoryError")
        ELSE Done(SetNode(tree, r.loc, File(content)))

\* open(path, "r").read() of a regular file
ReadContent(tree, path) == NodeAt(tree, Lookup(tree, path).loc)[2]

\* os.remove
Remove(tree, path) ==
    LET r == LookupEntry(tree, path)
    IN  IF ~r.ok THEN Failed(tree, r.err)
        ELSE IF NodeAt(tree, r.loc) = Absent THEN Failed(tree, "FileNotFoundError")
        ELSE IF NodeAt(tree, r.loc) = Dir THEN Failed(tree, "IsADirectoryError")
        ELSE Done(DelNode(tree, r.loc))

\* os.rename of an entry that is not a directory
Rename(tree, old, new) ==
    LET ro == LookupEntry(tree, old)
        rn == LookupEntry(tree, new)
    IN  IF ~ro.ok THEN Failed(tree, ro.err)
        ELSE IF NodeAt(tree, ro.loc) = Absent THEN Failed(tree, "FileNotFoundError")
        ELSE IF ~rn.ok THEN Failed(tree, rn.err)
        ELSE IF NodeAt(tree, rn.loc) = Dir THEN Failed(tree, "OSError")
        ELSE IF ro.loc = rn.loc THEN Done(tree)
        ELSE Done(SetNode(DelNode(tree, ro.loc), rn.loc, NodeAt(tree, ro.loc)))

\* the names of the entries of a directory (os.scandir)
Entries(tree, loc) ==
    {l[Len(l)] : l \in {m \in DOMAIN tree : Len(m) = Len(loc) + 1
                                           /\ SubSeq(m, 1, Len(loc)) = loc}}

\* shutil.copytree below the top directory: every entry of src_loc is copied
\* to dst_loc, a link is followed, and an entry that cannot be read is
\* recorded as an error while the copy goes on
RECURSIVE CopyEntries(_, _, _, _, _)
CopyEntries(tree, acc, src_loc, dst_loc, names) ==
    IF names = {} THEN acc
    ELSE LET name == CHOOSE n \in names : TRUE
             entry == NodeAt(tree, Append(src_loc, name))
             real == IF IsLink(entry)
                     THEN Resolve(tree, <<>>, Split(entry[2]), TRUE)
                     ELSE [ok |-> TRUE, loc |-> Append(src_loc, name), err |-> "none"]
             node == IF real.ok THEN NodeAt(tree, real.loc) ELSE Absent
             dst == Append(dst_loc, name)
             one == IF node = Absent
                    THEN [acc EXCEPT !.ok = FALSE, !.err = "Error"]
                    ELSE IF node = Dir
                    THEN CopyEntries(tree,
                                     [acc EXCEPT !.tree = SetNode(acc.tree, dst, Dir)],
                                     real.loc, dst, Entries(tree, real.loc))
                    ELSE [acc EXCEPT !.tree = SetNode(acc.tree, dst, node)]
         IN  CopyEntries(tree, one, src_loc, dst_loc, names \ {name})

\* mutant of CopyTree: dst becomes a link to src, nothing is copied
CopyTreeAsLink(tree, src, dst) ==
    LET made == Makedirs(tree, Dirname(dst), TRUE)
        entry == LookupEntry(made.tree, dst)
    IN  IF NodeAt(made.tree, entry.loc) # Absent THEN Failed(tree, "FileExistsError")
        ELSE Done(SetNode(made.tree, entry.loc, Link(src)))

\* shutil.copytree(src, dst): the entries are listed, dst is made (it must
\* not exist), the entries are copied, and the errors are raised at the end
CopyTree(tree, src, dst) ==
    LET made == Makedirs(tree, dst, FALSE)
        from == Lookup(tree, src).loc
        to == Lookup(made.tree, dst).loc
    IN  IF ~made.ok THEN made
        ELSE CopyEntries(tree, made, from, to, Entries(tree, from))

\* ------------------------------------------------- the file endpoints
MaxRequests == 3

\* what a request can name
SessionIds == {<<"s">>, <<"u">>}
Uuids == {<<"u">>}                      \* what uuid.uuid4() can return
Contents == {"x", "y"}
OutDir == <<Slash, "o">>                \* a directory outside TMP_ROOT
Gone == <<Slash, "g", Slash, "x">>      \* a path at which nothing exists
RelPaths ==
    { <<"f">>,                                        \* f
      <<"d", Slash, "f">>,                            \* d/f
      <<".">>,                                        \* .
      <<".", ".">>,                                   \* ..
      <<".", ".", Slash, "f">>,                       \* ../f
      <<"d", Slash, ".", ".", Slash, ".", ".", Slash, "f">>,   \* d/../../f
      <<Slash, "f">> }                                \* /f
Commands == {"ln -sT /o d", "ln -sT /g/x d"}

\* the answer of an endpoint: the HTTP status, the detail of an error, the
\* body of a success, and the tree it leaves
Answer(tree, status, detail, body) ==
    [tree |-> tree, status |-> status, detail |-> detail, body |-> body]
NoBody == <<"none">>

\* fork_session
ForkSession(tree, id, new_id) ==
    LET old_dir == SafeDirname(id)
        new_dir == SafeDirname(new_id)
        copy == CopyTree(tree, old_dir, new_dir)
    IN  IF ~IsDir(tree, old_dir)
        THEN Answer(tree, 404, "Session to fork not found", NoBody)
        ELSE IF ~copy.ok
        THEN Answer(copy.tree, 500, "Failed to fork session", NoBody)
        ELSE Answer(copy.tree, 200, "none", new_id)

\* read_file
ReadFile(tree, id, rel_path) ==
    LET workdir == SafeDirname(id)
        safe == SafeRelPath(rel_path)
        file_path == JoinPath(workdir, safe.path)
    IN  IF ~safe.ok THEN Answer(tree, 400, safe.detail, NoBody)
        ELSE IF ~StartsWith(Abspath(file_path), Abspath(workdir))
        THEN Answer(tree, 400, "Path traversal detected", NoBody)
        ELSE IF ~IsFile(tree, file_path)
        THEN Answer(tree, 404, "File does not exist", NoBody)
        ELSE Answer(tree, 200, "none", <<ReadContent(tree, file_path)>>)

\* write_file
WriteFile(tree, id, rel_path, content) ==
    LET workdir == SafeDirname(id)
        safe == SafeRelPath(rel_path)
        target_path == JoinPath(workdir, safe.path)
        abs_workdir == Abspath(workdir)
        abs_target == Abspath(target_path)
        made == Makedirs(tree, Dirname(abs_target), TRUE)
        written == OpenWrite(made.tree, abs_target, content)
    IN  IF ~safe.ok THEN Answer(tree, 400, safe.detail, NoBody)
        ELSE IF ~StartsWith(abs_target, abs_workdir)
        THEN Answer(tree, 500, "400: Path traversal detected", NoBody)
        ELSE IF ~made.ok THEN Answer(made.tree, 500, made.err, NoBody)
        ELSE IF ~written.ok THEN Answer(made.tree, 500, written.err, NoBody)
        ELSE Answer(written.tree, 200, "none", NoBody)

\* delete_file
DeleteFile(tree, id, rel_path) ==
    LET workdir == SafeDirname(id)
        safe == SafeRelPath(rel_path)
        target_path == JoinPath(workdir, safe.path)
        abs_workdir == Abspath(workdir)
        abs_target == Abspath(target_path)
        removed == Remove(tree, abs_target)
    IN  IF ~safe.ok THEN Answer(tree, 400, safe.detail, NoBody)
        ELSE IF ~StartsWith(abs_target, abs_workdir)
        THEN Answer(tree, 500, "400: Path traversal detected", NoBody)
        ELSE IF ~IsFile(tree, abs_target)
        THEN Answer(tree, 500, "404: File does not exist", NoBody)
        ELSE IF ~removed.ok THEN Answer(tree, 500, removed.err, NoBody)
        ELSE Answer(removed.tree, 200, "none", NoBody)

\* rename_file
RenameFile(tree, id, old_path, new_path) ==
    LET workdir == SafeDirname(id)
        old_safe == SafeRelPath(old_path)
        new_safe == SafeRelPath(new_path)
        old_abs == JoinPath(workdir, old_safe.path)
        new_abs == JoinPath(workdir, new_safe.path)
        abs_workdir == Abspath(workdir)
        made == Makedirs(tree, Dirname(new_abs), TRUE)
        renamed == Rename(made.tree, old_abs, new_abs)
    IN  IF ~old_safe.ok THEN Answer(tree, 400, old_safe.detail, NoBody)
        ELSE IF ~new_safe.ok THEN Answer(tree, 400, new_safe.detail, NoBody)
        ELSE IF \/ ~StartsWith(Abspath(old_abs), abs_workdir)
                \/ ~StartsWith(Abspath(new_abs), abs_workdir)
        THEN Answer(tree, 500, "400: Path traversal detected", NoBody)
        ELSE IF ~IsFile(tree, old_abs)
        THEN Answer(tree, 500, "404: Old file does not exist", NoBody)
        ELSE IF ~made.ok THEN Answer(made.tree, 500, made.err, NoBody)
        ELSE IF ~renamed.ok THEN Answer(made.tree, 500, renamed.err, NoBody)
        ELSE Answer(renamed.tree, 200, "none", NoBody)

\* what a command that ends at once does in its working directory
Shell(tree, workdir, cmd) ==
    LET entry == LookupEntry(tree, JoinPath(workdir, <<"d">>))
        target == IF cmd = "ln -sT /o d" THEN OutDir ELSE Gone
    IN  IF entry.ok /\ NodeAt(tree, entry.loc) = Absent
        THEN SetNode(tree, entry.loc, Link(target))
        ELSE tree

\* run_command, for a command that ends before the timeout
RunCommandOn(tree, id, cmd) ==
    LET workdir == SafeDirname(id)
    IN  IF ~IsDir(tree, workdir)
        THEN Answer(tree, 400, "Session does not exist", NoBody)
        ELSE Answer(Shell(tree, workdir, cmd), 200, "none", NoBody)

\* the endpoint called last with the session it named, and its answer
Last(op, id, answer) ==
    [op |-> op, id |-> id, status |-> answer.status, detail |-> answer.detail,
     body |-> answer.body]

\* one request served: fs.n counts the requests
Serve(op, id, answer) ==
    /\ fs.n < MaxRequests
    /\ fs' = [tree |-> answer.tree, last |-> Last(op, id, answer), n |-> fs.n + 1]
    /\ UNCHANGED <<evalVars, wk, rc, cl>>

\* the store before the first request: TMP_ROOT does not exist yet, and
\* outside of it there is a directory with a file
FilesInit ==
    /\ EvalOff
    /\ wk = Off
    /\ rc = Off
    /\ cl = Off
    /\ fs = [tree |-> (<<<<"o">>>> :> Dir) @@ (<<<<"o">>, <<"f">>>> :> File("x")),
             last |-> [op |-> "none", id |-> <<>>, status |-> 200,
                       detail |-> "none", body |-> NoBody],
             n |-> 0]

FsFork ==
    \E id \in SessionIds, new_id \in Uuids :
       Serve("fork", id, ForkSession(fs.tree, id, new_id))

FsRead ==
    \E id \in SessionIds, rel_path \in RelPaths :
       Serve("read", id, ReadFile(fs.tree, id, rel_path))

FsWrite ==
    \E id \in SessionIds, rel_path \in RelPaths, content \in Contents :
       Serve("write", id, WriteFile(fs.tree, id, rel_path, content))

FsDelete ==
    \E id \in SessionIds, rel_path \in RelPaths :
       Serve("delete", id, DeleteFile(fs.tree, id, rel_path))

FsRename ==
    \E id \in SessionIds, old_path \in RelPaths, new_path \in RelPaths :
       Serve("rename", id, RenameFile(fs.tree, id, old_path, new_path))

FsRun ==
    \E id \in SessionIds, cmd \in Commands :
       Serve("run", id, RunCommandOn(fs.tree, id, cmd))

FilesNext ==
    \/ FsFork
    \/ FsRead
    \/ FsWrite
    \/ FsDelete
    \/ FsRename
    \/ FsRun

SpecFiles == FilesInit /\ [][FilesNext]_vars

\* ------------------------------------------- the claims on the session store
\* the location of a session's root directory: the names of its path
IsName(comp) == comp # <<>> /\ comp # Dot
SessionRoot(id) == SelectSeq(Split(SafeDirname(id)), IsName)

Under(loc, root) ==
    Len(loc) >= Len(root) /\ SubSeq(loc, 1, Len(root)) = root

\* the locations at which two trees differ
Changed(before, after) ==
    {loc \in DOMAIN before \cup DOMAIN after : NodeAt(before, loc) # NodeAt(after, loc)}

\* the locations at which a regular file was written, removed or replaced
FilesChanged(before, after) ==
    {loc \in Changed(before, after) :
        IsRegular(NodeAt(before, loc)) \/ IsRegular(NodeAt(after, loc))}

\* a relative path the file jail has to reject: it is absolute, or its
\* normal form has a parent-directory segment
IsAbsolute(rel_path) == rel_path # <<>> /\ rel_path[1] = Slash
HasParentSegment(rel_path) ==
    LET comps == Split(Normpath(rel_path)) IN \E i \in DOMAIN comps : comps[i] = DotDot
Escaping(rel_path) == IsAbsolute(rel_path) \/ HasParentSegment(rel_path)

\* the path of the file a valid relative path names in a session
TargetOf(id, rel_path) ==
    Abspath(JoinPath(SafeDirname(id), Normpath(rel_path)))

\* C13: delete of a valid relative path at which no regular file exists, and
\* rename whose old path names no regular file, answer 404 and leave the
\* file system as it was.
C13_MissingTargetIsNotFound ==
    \A id \in SessionIds, rel_path \in RelPaths :
       ~Escaping(rel_path) /\ ~IsFile(fs.tree, TargetOf(id, rel_path)) =>
          /\ LET answer == DeleteFile(fs.tree, id, rel_path)
             IN  answer.status = 404 /\ answer.tree = fs.tree
          /\ \A new_path \in RelPaths :
                ~Escaping(new_path) =>
                   LET answer == RenameFile(fs.tree, id, rel_path, new_path)
                   IN  answer.status = 404 /\ answer.tree = fs.tree

\* C14: write, delete and rename with a relative path (either path, for
\* rename) that is absolute or whose normal form has a parent-directory
\* segment answer 400 and leave the file system as it was.
C14_EscapingPathRejectedUnchanged ==
    \A id \in SessionIds, rel_path \in RelPaths :
       Escaping(rel_path) =>
          /\ \A content \in Contents :
                LET answer == WriteFile(fs.tree, id, rel_path, content)
                IN  answer.status = 400 /\ answer.tree = fs.tree
          /\ LET answer == DeleteFile(fs.tree, id, rel_path)
             IN  answer.status = 400 /\ answer.tree = fs.tree
          /\ \A other \in RelPaths :
                /\ LET answer == RenameFile(fs.tree, id, rel_path, other)
                   IN  answer.status = 400 /\ answer.tree = fs.tree
                /\ LET answer == RenameFile(fs.tree, id, other, rel_path)
                   IN  answer.status = 400 /\ answer.tree = fs.tree

\* C14 witness: a request with an escaping path was answered 400 while the
\* session had a file that it could have replaced or moved
C14_Witness ==
    /\ fs.last.op \in {"write", "delete", "rename"}
    /\ fs.last.status = 400
    /\ fs.last.detail = "Invalid path"
    /\ IsFile(fs.tree, TargetOf(fs.last.id, <<"f">>))

\* C15: a write, read, delete or rename that succeeds reads and changes only
\* files under the root of the session it names, also when a command has
\* put symbolic links into the session.
C15_SucceedsOnlyUnderRoot ==
    \A id \in SessionIds, rel_path \in RelPaths :
       /\ \A content \in Contents :
             LET answer == WriteFile(fs.tree, id, rel_path, content)
             IN  answer.status = 200 =>
                    \A loc \in FilesChanged(fs.tree, answer.tree) : Under(loc, SessionRoot(id))
       /\ LET answer == DeleteFile(fs.tree, id, rel_path)
          IN  answer.status = 200 =>
                 \A loc \in FilesChanged(fs.tree, answer.tree) : Under(loc, SessionRoot(id))
       /\ ReadFile(fs.tree, id, rel_path).status = 200 =>
             Under(Lookup(fs.tree, TargetOf(id, rel_path)).loc, SessionRoot(id))
       /\ \A new_path \in RelPaths :
             LET answer == RenameFile(fs.tree, id, rel_path, new_path)
             IN  answer.status = 200 =>
                    \A loc \in FilesChanged(fs.tree, answer.tree) : Under(loc, SessionRoot(id))

\* what a client sees of a session: for every relative path, the directory
\* or the content of the file that the path leads to
ViewPaths == {<<"f">>, <<"d">>, <<"d", Slash, "f">>}
View(tree, id) ==
    [rel_path \in ViewPaths |->
        LET r == Lookup(tree, JoinPath(SafeDirname(id), rel_path))
        IN  IF r.ok THEN NodeAt(tree, r.loc) ELSE Absent]

\* the entries below the root of a session
Subtree(tree, id) ==
    [loc \in {l \in DOMAIN tree : Under(l, SessionRoot(id))} |-> tree[loc]]

\* C16: a fork that succeeds returns an id that is not the source's and had
\* no directory, the new session shows the files of the source, and a write,
\* delete or rename on one session leaves every other session as it was.
C16_ForkIsAnIndependentCopy ==
    /\ \A id \in SessionIds, new_id \in Uuids :
          LET answer == ForkSession(fs.tree, id, new_id)
          IN  answer.status = 200 =>
                 /\ answer.body # id
                 /\ ~Exists(fs.tree, SafeDirname(answer.body))
                 /\ View(answer.tree, answer.body) = View(fs.tree, id)
                 /\ Subtree(answer.tree, id) = Subtree(fs.tree, id)
    /\ \A id \in SessionIds, rel_path \in RelPaths :
          LET others == {SessionRoot(other) : other \in SessionIds \ {id}}
              Kept(answer) ==
                 \A loc \in Changed(fs.tree, answer.tree) :
                    \A root \in others : ~Under(loc, root)
          IN  /\ \A content \in Contents :
                    Kept(WriteFile(fs.tree, id, rel_path, content))
              /\ Kept(DeleteFile(fs.tree, id, rel_path))
              /\ \A new_path \in RelPaths :
                    Kept(RenameFile(fs.tree, id, rel_path, new_path))

\* C16 witness: a fork has just answered with the new id, and the source and
\* the new session both hold the file f
C16_Witness ==
    /\ fs.last.op = "fork"
    /\ fs.last.status = 200
    /\ fs.last.body = <<"u">>
    /\ IsFile(fs.tree, TargetOf(fs.last.id, <<"f">>))
    /\ IsFile(fs.tree, TargetOf(<<"u">>, <<"f">>))

\* C17: a fork that fails leaves the file system as it was, and a fork of a
\* session without a directory answers 404.
C17_FailedForkLeavesNothing ==
    \A id \in SessionIds, new_id \in Uuids :
       LET answer == ForkSession(fs.tree, id, new_id)
       IN  /\ ~IsDir(fs.tree, SafeDirname(id)) => answer.status = 404
           /\ answer.status # 200 => answer.tree = fs.tree

\* ======================================================= the command runner
\* One call of ReplClient.run and of run_command, with the processes the
\* command starts.  Time is counted in seconds.
RunTimeout == 30

\* how long a process of the command can run
RunDurations == {0, 2, RunTimeout + 1}

\* a command: how long its shell runs, its exit code, and the child it
\* leaves to itself: none, one that keeps the pipes of the shell open, or
\* one that is detached from them
RunCommands ==
    [shell_dur : RunDurations, code : {0, 3},
     child : {"none", "holds_pipes", "detached"}, child_dur : RunDurations \ {0}]

\* the session directory: there, missing, or removed between the check and
\* the start of the command
RunSessions == {"dir", "missing", "vanishes"}

NoAnswer == [status |-> 0, stdout |-> "none", stderr |-> "none", detail |-> "none"]

RunInit ==
    /\ EvalOff
    /\ wk = Off
    /\ fs = Off
    /\ cl = Off
    /\ \E cmd \in RunCommands, session \in RunSessions :
          rc = [pc |-> "check", cmd |-> cmd, session |-> session, t |-> 0,
                shell |-> "none", child |-> "none", timed_out |-> FALSE,
                answer |-> NoAnswer, client |-> "waiting"]

\* if not os.path.isdir(workdir): raise HTTPException(status_code=400, ...)
RcCheck ==
    /\ rc.pc = "check"
    /\ IF rc.session = "missing"
       THEN rc' = [rc EXCEPT !.pc = "answered",
                             !.answer = [status |-> 400, stdout |-> "none",
                                         stderr |-> "none",
                                         detail |-> "Session does not exist"]]
       ELSE rc' = [rc EXCEPT !.pc = "spawn"]
    /\ UNCHANGED <<evalVars, wk, fs, cl>>

\* subprocess.run starts the shell in workdir; a workdir that is gone makes
\* it raise, and the except clause answers with status 500
RcSpawn ==
    /\ rc.pc = "spawn"
    /\ IF rc.session = "vanishes"
       THEN rc' = [rc EXCEPT !.pc = "answered",
                             !.answer = [status |-> 500, stdout |-> "",
                                         stderr |-> "Exception running command",
                                         detail |-> "none"]]
       ELSE rc' = [rc EXCEPT !.pc = "wait",
                             !.shell = IF rc.cmd.shell_dur = 0 THEN "exited" ELSE "running",
                             !.child = IF rc.cmd.child = "none" THEN "none" ELSE "running"]
    /\ UNCHANGED <<evalVars, wk, fs, cl>>

\* communicate() returns when the shell has ended and nobody holds its pipes
PipesClosed ==
    /\ rc.shell = "exited"
    /\ rc.cmd.child = "holds_pipes" => rc.child # "running"

\* return JSONResponse({"stdout": proc.stdout, "stderr": proc.stderr, ...})
RcComplete ==
    /\ rc.pc = "wait"
    /\ PipesClosed
    /\ rc' = [rc EXCEPT !.pc = "answered",
                        !.answer = [status |-> 200, stdout |-> "out",
                                    stderr |-> IF rc.cmd.code = 0 THEN "" ELSE "err",
                                    detail |-> "none"]]
    /\ UNCHANGED <<evalVars, wk, fs, cl>>

\* one second passes while communicate(timeout=30) waits
RcTick ==
    /\ rc.pc = "wait"
    /\ ~PipesClosed
    /\ rc.t < RunTimeout
    /\ rc' = [rc EXCEPT !.t = rc.t + 1,
                        !.shell = IF rc.shell = "running" /\ rc.cmd.shell_dur = rc.t + 1
                                  THEN "exited" ELSE rc.shell,
                        !.child = IF rc.child = "running" /\ rc.cmd.child_dur = rc.t + 1
                                  THEN "exited" ELSE rc.child]
    /\ UNCHANGED <<evalVars, wk, fs, cl>>

\* TimeoutExpired: subprocess.run kills the shell (process.kill()), waits for
\* it and raises; the except clause answers with status 500
RcTimeout ==
    /\ rc.pc = "wait"
    /\ ~PipesClosed
    /\ rc.t = RunTimeout
    /\ rc' = [rc EXCEPT !.pc = "answered",
                        !.timed_out = TRUE,
                        !.shell = IF rc.shell = "running" THEN "killed" ELSE rc.shell,
                        !.answer = [status |-> 500, stdout |-> "",
                                    stderr |-> "Exception running command",
                                    detail |-> "none"]]
    /\ UNCHANGED <<evalVars, wk, fs, cl>>

\* ReplClient.run: a status other than 200 raises ReplServerError
RcClient ==
    /\ rc.pc = "answered"
    /\ rc' = [rc EXCEPT !.pc = "done",
                        !.client = IF rc.answer.status = 200
                                   THEN "returned" ELSE "ReplServerError"]
    /\ UNCHANGED <<evalVars, wk, fs, cl>>

RunNext ==
    \/ RcCheck
    \/ RcSpawn
    \/ RcComplete
    \/ RcTick
    \/ RcTimeout
    \/ RcClient

SpecRun == RunInit /\ [][RunNext]_vars

\* ------------------------------------------ the claims on the command runner
\* C18: run command never fails the call: whatever the session and the
\* command, the server answers with status 200 and a stdout/stderr result,
\* and the client returns it instead of raising.
C18_RunNeverFailsTheCall ==
    /\ rc.pc \in {"answered", "done"} =>
          /\ rc.answer.status = 200
          /\ rc.answer.stdout # "none"
          /\ rc.answer.stderr # "none"
    /\ rc.pc = "done" => rc.client = "returned"

\* C19: when the command exceeds the timeout, the answer has an empty stdout
\* and a synthetic stderr, and neither the shell nor a child of the command
\* is running when the call returns.
C19_TimeoutLeavesNoProcess ==
    rc.pc \in {"answered", "done"} /\ rc.timed_out =>
       /\ rc.answer.stdout = ""
       /\ rc.answer.stderr = "Exception running command"
       /\ rc.shell # "running"
       /\ rc.child # "running"

\* C22: every session root that exists is a directory: no write, delete or
\* rename puts a regular file at the root path of a session, so that a later
\* write, fork or run of that session does not fail for it.
C22_SessionRootIsADirectory ==
    \A id \in SessionIds :
       /\ NodeAt(fs.tree, SessionRoot(id)) \in {Absent, Dir}
       /\ \A content \in Contents :
             WriteFile(fs.tree, id, <<"f">>, content).status = 200

\* ================================================ session ids of any form
\* The endpoints of the session store again, called with session ids that a
\* client is free to send: the empty id, '.', a plain name, ids with '/' or
\* '..' in them, and the names these are turned into.
OddIds ==
    { <<>>,                      \* the empty id
      <<".">>,                   \* .
      <<"d">>,                   \* d
      <<"a", Slash, "b">>,       \* a/b
      <<"a", "_", "b">>,         \* a_b
      <<".", ".">> }             \* ..
IdPaths == {<<"f">>, <<"d", Slash, "f">>}

IdFork ==
    \E id \in OddIds, new_id \in Uuids :
       Serve("fork", id, ForkSession(fs.tree, id, new_id))

IdRead ==
    \E id \in OddIds, rel_path \in IdPaths :
       Serve("read", id, ReadFile(fs.tree, id, rel_path))

IdWrite ==
    \E id \in OddIds, rel_path \in IdPaths, content \in Contents :
       Serve("write", id, WriteFile(fs.tree, id, rel_path, content))

IdDelete ==
    \E id \in OddIds, rel_path \in IdPaths :
       Serve("delete", id, DeleteFile(fs.tree, id, rel_path))

IdRename ==
    \E id \in OddIds, old_path \in IdPaths, new_path \in IdPaths :
       Serve("rename", id, RenameFile(fs.tree, id, old_path, new_path))

IdRun ==
    \E id \in OddIds, cmd \in Commands :
       Serve("run", id, RunCommandOn(fs.tree, id, cmd))

IdsNext ==
    \/ IdFork
    \/ IdRead
    \/ IdWrite
    \/ IdDelete
    \/ IdRename
    \/ IdRun

SpecIds == FilesInit /\ [][IdsNext]_vars

\* ------------------------------------------------ the claim on session ids
\* the location of the store root
StoreRoot == SelectSeq(Split(TMP_ROOT), IsName)

\* C21: for distinct session ids a and b, the directory of a is a proper
\* subdirectory of the store root, it is not the directory of b and neither
\* is nested in the other, and a write, read, delete or rename addressed to
\* a reads and changes no file of b.
C21_SessionsIsolatedById ==
    \A a \in OddIds :
       /\ Under(SessionRoot(a), StoreRoot)
       /\ SessionRoot(a) # StoreRoot
       /\ \A b \in OddIds \ {a} :
             /\ SessionRoot(a) # SessionRoot(b)
             /\ ~Under(SessionRoot(a), SessionRoot(b))
             /\ ~Under(SessionRoot(b), SessionRoot(a))
             /\ \A rel_path \in IdPaths :
                   LET Kept(answer) ==
                          \A loc \in FilesChanged(fs.tree, answer.tree) :
                             ~Under(loc, SessionRoot(b))
                   IN  /\ \A content \in Contents :
                             Kept(WriteFile(fs.tree, a, rel_path, content))
                       /\ Kept(DeleteFile(fs.tree, a, rel_path))
                       /\ \A new_path \in IdPaths :
                             Kept(RenameFile(fs.tree, a, rel_path, new_path))
                       /\ ReadFile(fs.tree, a, rel_path).status = 200 =>
                             ~Under(Lookup(fs.tree, TargetOf(a, rel_path)).loc,
                                    SessionRoot(b))

\* ================================================================ the client
\* One call of a method of ReplClient: the request is posted, the status of
\* the answer is checked, the body is parsed, and the except clauses of the
\* method turn whatever was raised into the exception the caller gets.
Methods ==
    {"fork_session", "run", "write_file", "read_file", "delete_file",
     "rename_file", "evaluate_code"}

\* the error statuses a server answers with; a status is kept as the text of
\* its number, "None" is a ReplServerError without status_code
ErrorStatuses == {"400", "404", "422", "500"}

\* the bodies of an answer: JSON with a detail (HTTPException), JSON with
\* stdout and stderr (run_command's status 500), text that is no JSON, and
\* for status 200 a body of the expected structure or of another one
ErrorBodies(method) ==
    IF method = "run" THEN {"detail", "stderr", "text"} ELSE {"detail", "text"}

\* what posting the request can give: an answer, or an exception of the
\* transport
Responses(method) ==
    {[kind |-> "answer", status |-> "200", body |-> b] : b \in {"ok", "bad"}}
      \cup {[kind |-> "answer", status |-> st, body |-> b] :
               st \in ErrorStatuses, b \in ErrorBodies(method)}
      \cup {[kind |-> "exc", status |-> "None", body |-> t] :
               t \in {"httpcore.ReadTimeout", "httpx.ConnectError"}}

NoResponse == [kind |-> "none", status |-> "None", body |-> "none"]
NoException == [type |-> "none", message |-> "none", status_code |-> "None",
                details |-> <<"none">>]

\* the text of the server's reason in a body
BodyText(body) == <<"text", body>>

\* detail = resp.json().get("detail", ""), or resp.text when the body is no
\* JSON; run takes resp.json().get("stderr") or resp.json().get("detail", "")
DetailOf(method, body) ==
    IF body = "text" THEN BodyText(body)
    ELSE IF body = "detail" THEN BodyText(body)
    ELSE IF method = "run" THEN BodyText(body)
    ELSE <<"text", "">>

\* str(e) of a ReplServerError: message, status_code and details in one text
StrOf(exc) == <<"str", exc.message, exc.status_code, exc.details>>

\* the except clauses of a method, in their order
Handle(method, exc) ==
    IF exc.type = "ValidationError"
    THEN [type |-> "ReplServerError", message |-> "Invalid response structure",
          status_code |-> "None", details |-> StrOf(exc)]
    ELSE IF exc.type = "httpcore.ReadTimeout" /\ method \in {"run", "evaluate_code"}
    THEN [type |-> "ReplServerError", message |-> "Clientside timeout",
          status_code |-> "408", details |-> StrOf(exc)]
    ELSE IF exc.type = "ReplServerError" /\ method = "run"
    THEN exc
    ELSE [type |-> "ReplServerError", message |-> "Error during request",
          status_code |-> "None", details |-> StrOf(exc)]

ClientInit ==
    /\ EvalOff
    /\ wk = Off
    /\ fs = Off
    /\ rc = Off
    /\ \E method \in Methods :
          cl = [pc |-> "post", method |-> method, resp |-> NoResponse,
                raised |-> NoException, outcome |-> "none", exc |-> NoException]

\* resp = await self._client.post(...)
ClPost ==
    /\ cl.pc = "post"
    /\ \E resp \in Responses(cl.method) :
          IF resp.kind = "exc"
          THEN cl' = [cl EXCEPT !.pc = "except", !.resp = resp,
                                !.raised = [type |-> resp.body, message |-> "none",
                                            status_code |-> "None",
                                            details |-> <<"none">>]]
          ELSE cl' = [cl EXCEPT !.pc = "status", !.resp = resp]
    /\ UNCHANGED <<evalVars, wk, fs, rc>>

\* if resp.status_code != 200: raise ReplServerError(..., status_code, details)
ClStatus ==
    /\ cl.pc = "status"
    /\ IF cl.resp.status # "200"
       THEN cl' = [cl EXCEPT !.pc = "except",
                             !.raised = [type |-> "ReplServerError",
                                         message |-> "Failed",
                                         status_code |-> cl.resp.status,
                                         details |-> DetailOf(cl.method, cl.resp.body)]]
       ELSE cl' = [cl EXCEPT !.pc = "parse"]
    /\ UNCHANGED <<evalVars, wk, fs, rc>>

\* data = resp.json(); return Response(**data)
ClParse ==
    /\ cl.pc = "parse"
    /\ IF cl.resp.body = "ok"
       THEN cl' = [cl EXCEPT !.pc = "done", !.outcome = "returned"]
       ELSE cl' = [cl EXCEPT !.pc = "except",
                             !.raised = [type |-> "ValidationError",
                                         message |-> "none", status_code |-> "None",
                                         details |-> <<"none">>]]
    /\ UNCHANGED <<evalVars, wk, fs, rc>>

\* the except clauses: the caller gets what they raise
ClExcept ==
    /\ cl.pc = "except"
    /\ cl' = [cl EXCEPT !.pc = "done", !.outcome = "raised",
                        !.exc = Handle(cl.method, cl.raised)]
    /\ UNCHANGED <<evalVars, wk, fs, rc>>

ClientNext ==
    \/ ClPost
    \/ ClStatus
    \/ ClParse
    \/ ClExcept

SpecClient == ClientInit /\ [][ClientNext]_vars

\* --------------------------------------------------- the claim on the client
\* details that hold the server's text, as they are or inside a longer text
RECURSIVE Carries(_, _)
Carries(details, text) ==
    \/ details = text
    \/ details[1] = "str" /\ Carries(details[4], text)

\* C23: when the server answers a call with a status other than 200, the
\* method raises a ReplServerError whose status_code is that status and whose
\* details carry the detail text of the server.
C23_StatusCodeKept ==
    cl.pc = "done" /\ cl.resp.kind = "answer" /\ cl.resp.status # "200" =>
       /\ cl.outcome = "raised"
       /\ cl.exc.type = "ReplServerError"
       /\ cl.exc.status_code = cl.resp.status
       /\ Carries(cl.exc.details, BodyText(cl.resp.body))
====
